---- MODULE Spec2Model ----
(***************************************************************************)
(* Model of validate-links (validate.go): a directory walker sends every   *)
(* .docx/.pptx file over an unbuffered channel, the main loop extracts,    *)
(* filters and probes the hyperlinks of one document at a time behind a    *)
(* per-document WaitGroup, and main then aggregates a Report.              *)
(*                                                                         *)
(* Text (file names, archive entry names, manifest content, URLs) is a     *)
(* sequence of tokens.  A token is either a single character (Char) or a   *)
(* fixed multi-character literal that no pattern can split.                *)
(***************************************************************************)
EXTENDS Integers, Sequences, FiniteSets, TLC

(***************************************************************************)
(* Bounds                                                                  *)
(***************************************************************************)
\* number of walk callback invocations after the one for the root directory
MaxEntries == 2
\* length of the link sequences filterHyperlinks is applied to on its own
MaxFilterLen == 3
\* relationship records per manifest entry in the extraction inputs
MaxRecords == 2
\* entries below the root in the trees of the fair specification
MaxLiveEntries == 2

(***************************************************************************)
(* Text and regular expressions                                            *)
(***************************************************************************)
\* single-character tokens; "Q" is the double quote, "NL" the line feed
Char == {".", " ", "Q", "NL", "-"}

\* pattern elements: "ANY" is the regexp `.`, "ANYSTAR" is `.*`
RECURSIVE MatchFrom(_, _, _, _)
MatchFrom(pat, k, s, i) ==
    IF k > Len(pat) THEN TRUE
    ELSE IF pat[k] = "ANYSTAR"
         THEN \E j \in i..(Len(s) + 1) :
                 /\ \A m \in i..(j - 1) : s[m] # "NL"
                 /\ MatchFrom(pat, k + 1, s, j)
         ELSE /\ i <= Len(s)
              /\ IF pat[k] = "ANY"
                 THEN s[i] \in Char \ {"NL"}
                 ELSE s[i] = pat[k]
              /\ MatchFrom(pat, k + 1, s, i + 1)

\* regexp.MatchString: the pattern matches somewhere in s (unanchored)
MatchString(pat, s) == \E i \in 1..(Len(s) + 1) : MatchFrom(pat, 1, s, i)

\* the literal Type="http://schemas.openxmlformats.org/.../hyperlink"
TypeHyperlink == "TYPE_HL"

\* matchers[".docx"], matchers[".pptx"], matchers["microsoft"], matchers["mailto"]
matchers ==
    [docx      |-> <<"word/_rels/document", "ANY", "xml", "ANY", "rels">>,
     pptx      |-> <<"ppt/slides/_rels/", "ANYSTAR", "ANY", "xml", "ANY", "rels">>,
     microsoft |-> <<"http://office", "ANY", "microsoft", "ANY", "com">>,
     mailto    |-> <<"mailto:", "ANYSTAR">>]

\* the fixed prefix of matchers["hyperlink"]: Type="...hyperlink" Target="
HyperlinkPrefix == <<TypeHyperlink, " ", "TARGET">>

ExtDocx == <<".", "docx">>
ExtPptx == <<".", "pptx">>

\* filepath.Ext: the suffix of the name that starts at its last dot
Ext(name) ==
    LET dots == {i \in 1..Len(name) : name[i] = "."}
    IN  IF dots = {} THEN <<>>
        ELSE LET last == CHOOSE i \in dots : \A j \in dots : j <= i
             IN  SubSeq(name, last, Len(name))

\* matchers[document.Type]: nil for any other type
TypeMatcher(type) == IF type = ExtDocx THEN matchers.docx ELSE matchers.pptx

(***************************************************************************)
(* Extraction and filtering (pure functions)                               *)
(***************************************************************************)
\* end of the lazy capture (.+?)" that starts at position c: the first quote
\* at or after c + 1 with no line feed before it; 0 if there is none
CaptureEnd(s, c) ==
    LET qs == {j \in (c + 1)..Len(s) :
                  /\ s[j] = "Q"
                  /\ \A m \in c..(j - 1) : s[m] # "NL"}
    IN  IF c > Len(s) \/ qs = {} THEN 0
        ELSE CHOOSE j \in qs : \A j2 \in qs : j <= j2

\* does matchers["hyperlink"] match starting exactly at position i
HyperlinkAt(s, i) ==
    /\ i + 2 <= Len(s)
    /\ SubSeq(s, i, i + 2) = HyperlinkPrefix
    /\ CaptureEnd(s, i + 3) # 0

\* FindAllStringSubmatch(fileContent, -1), keeping capture group 1 of each
\* match: leftmost match first, the search resumes after the match
RECURSIVE FindAllTargets(_, _)
FindAllTargets(s, from) ==
    LET starts == {i \in from..Len(s) : HyperlinkAt(s, i)}
    IN  IF starts = {} THEN <<>>
        ELSE LET i == CHOOSE x \in starts : \A y \in starts : x <= y
                 e == CaptureEnd(s, i + 3)
             IN  <<SubSeq(s, i + 3, e - 1)>> \o FindAllTargets(s, e + 1)

\* variant: the iteration without the mailto matcher
RetainedNoMail(url) ==
    LET isMicrosoft == MatchString(matchers.microsoft, url)
        isEmpty     == (url = <<>>)
    IN  isMicrosoft = FALSE /\ isEmpty = FALSE

\* the test of filterHyperlinks for one link
Retained(url) ==
    LET isMicrosoft == MatchString(matchers.microsoft, url)
        isEmpty     == (url = <<>>)
        isMail      == MatchString(matchers.mailto, url)
    IN  isMicrosoft = FALSE /\ isEmpty = FALSE /\ isMail = FALSE

\* variant: retained links are collected in reverse
RECURSIVE filterHyperlinksReversed(_)
filterHyperlinksReversed(hyperlinks) ==
    IF hyperlinks = <<>> THEN <<>>
    ELSE LET link == Head(hyperlinks)
             rest == filterHyperlinksReversed(Tail(hyperlinks))
         IN  IF Retained(link.Url) THEN rest \o <<link>> ELSE rest

\* variant: links are removed in place while iterating, so the link after a
\* removed one is never tested
RECURSIVE filterHyperlinksSkipAfterRemoval(_)
filterHyperlinksSkipAfterRemoval(hyperlinks) ==
    IF hyperlinks = <<>> THEN <<>>
    ELSE IF Retained(Head(hyperlinks).Url)
         THEN <<Head(hyperlinks)>>
                  \o filterHyperlinksSkipAfterRemoval(Tail(hyperlinks))
         ELSE IF Len(hyperlinks) >= 2
              THEN <<hyperlinks[2]>>
                       \o filterHyperlinksSkipAfterRemoval(Tail(Tail(hyperlinks)))
              ELSE <<>>

\* filterHyperlinks: the loop of append over the links that pass the test
RECURSIVE filterHyperlinks(_)
filterHyperlinks(hyperlinks) ==
    IF hyperlinks = <<>> THEN <<>>
    ELSE LET link == Head(hyperlinks)
             rest == filterHyperlinks(Tail(hyperlinks))
         IN  IF Retained(link.Url) THEN <<link>> \o rest ELSE rest

extractHyperlinksFromContent(fileContent) ==
    LET matches == FindAllTargets(fileContent, 1)
        links   == [index \in 1..Len(matches) |->
                       [Url |-> matches[index], IsWorking |-> FALSE]]
    IN  filterHyperlinks(links)

\* the archive entries whose name matches the matcher of the document type,
\* in archive order
RECURSIVE MatchingEntries(_, _)
MatchingEntries(entries, type) ==
    IF entries = <<>> THEN <<>>
    ELSE LET rest == MatchingEntries(Tail(entries), type)
         IN  IF MatchString(TypeMatcher(type), Head(entries).name)
             THEN <<Head(entries)>> \o rest ELSE rest

RECURSIVE ConcatContent(_)
ConcatContent(entries) ==
    IF entries = <<>> THEN <<>>
    ELSE Head(entries).content \o ConcatContent(Tail(entries))

\* getLinkFileContent when nothing fails: the buffer after the loop
getLinkFileContent(archive, type) ==
    ConcatContent(MatchingEntries(archive.entries, type))

\* getLinkFileContent dereferences a nil reader when the archive cannot be
\* opened or when a matching entry cannot be opened
ExtractionPanics(archive, type) ==
    \/ ~archive.zipOk
    \/ \E i \in 1..Len(MatchingEntries(archive.entries, type)) :
           ~MatchingEntries(archive.entries, type)[i].openOk

extractHyperlinksFromDocument(archive, type) ==
    extractHyperlinksFromContent(getLinkFileContent(archive, type))

(***************************************************************************)
(* The file system as filepath.Walk presents it: a sequence of callback    *)
(* invocations.  The callback always returns nil, so the walk never skips  *)
(* or stops and the invocations are independent of what the callback does. *)
(***************************************************************************)
uA == <<"http://a">>
uB == <<"http://b">>
uMicrosoft == <<"http://office", ".", "microsoft", ".", "com", "/help">>
uMail == <<"mailto:", "x@y">>

\* <Relationship Id=".." Type="...hyperlink" Target="url" TargetMode="External"/>
HyperlinkRecord(url) ==
    <<"REL", TypeHyperlink, " ", "TARGET">> \o url
        \o <<"Q", " ", "TargetMode=", "Q", "External", "Q", "/>">>

\* a relationship of another type (an image)
ImageRecord == <<"REL", "TYPE_IMG", " ", "TARGET", "media/image1", "Q", "/>">>

DocxManifest == <<"word/_rels/document", ".", "xml", ".", "rels">>
Slide1Manifest == <<"ppt/slides/_rels/", "slide1", ".", "xml", ".", "rels">>
Slide2Manifest == <<"ppt/slides/_rels/", "slide2", ".", "xml", ".", "rels">>
OtherPart == <<"docProps/app", ".", "xml">>

Entry(name, openOk, content) ==
    [name |-> name, openOk |-> openOk, content |-> content]

\* one callback invocation: the os.FileInfo (absent when hasInfo is FALSE),
\* the err argument, and what zip.OpenReader finds at that path
WalkCall(name, hasInfo, err, isDir, zipOk, entries) ==
    [name |-> name, hasInfo |-> hasInfo, err |-> err, isDir |-> isDir,
     zipOk |-> zipOk, entries |-> entries]

RootCall == WalkCall(<<".">>, TRUE, FALSE, TRUE, FALSE, <<>>)

\* a.docx: the same URL twice
FileTwoLinks ==
    WalkCall(<<"a", ".", "docx">>, TRUE, FALSE, FALSE, TRUE,
        <<Entry(OtherPart, TRUE, ImageRecord),
          Entry(DocxManifest, TRUE, HyperlinkRecord(uA) \o HyperlinkRecord(uA))>>)

\* b.pptx: two slide manifests; boilerplate and a mail link in the second
FileSlides ==
    WalkCall(<<"b", ".", "pptx">>, TRUE, FALSE, FALSE, TRUE,
        <<Entry(Slide1Manifest, TRUE, HyperlinkRecord(uB) \o ImageRecord),
          Entry(Slide2Manifest, TRUE,
                HyperlinkRecord(uMicrosoft) \o HyperlinkRecord(uMail)
                    \o HyperlinkRecord(uA))>>)

\* d.docx: only the boilerplate link
FileNoLinks ==
    WalkCall(<<"d", ".", "docx">>, TRUE, FALSE, FALSE, TRUE,
        <<Entry(DocxManifest, TRUE, HyperlinkRecord(uMicrosoft))>>)

\* e.pptx: the boilerplate link and a record with Target=""
FileEmptyTarget ==
    WalkCall(<<"e", ".", "pptx">>, TRUE, FALSE, FALSE, TRUE,
        <<Entry(Slide1Manifest, TRUE, HyperlinkRecord(uMicrosoft) \o HyperlinkRecord(<<>>))>>)

\* f.docx: not a zip archive
FileCorrupt == WalkCall(<<"f", ".", "docx">>, TRUE, FALSE, FALSE, FALSE, <<>>)

\* g.docx: the manifest entry cannot be opened
FileEntryUnreadable ==
    WalkCall(<<"g", ".", "docx">>, TRUE, FALSE, FALSE, TRUE,
        <<Entry(DocxManifest, FALSE, HyperlinkRecord(uA))>>)

FileText == WalkCall(<<"notes", ".", "txt">>, TRUE, FALSE, FALSE, FALSE, <<>>)

\* a directory whose name ends in .docx
DirNamedDocx == WalkCall(<<"old", ".", "docx">>, TRUE, FALSE, TRUE, FALSE, <<>>)

\* second invocation for a directory that could not be listed
DirUnreadable == WalkCall(<<"private">>, TRUE, TRUE, TRUE, FALSE, <<>>)

\* an entry whose lstat failed: no file info, err set
EntryLstatFailed == WalkCall(<<"gone", ".", "docx">>, FALSE, TRUE, FALSE, FALSE, <<>>)

SampleCalls ==
    {FileTwoLinks, FileSlides, FileNoLinks, FileEmptyTarget,
     FileCorrupt, FileEntryUnreadable, FileText, DirNamedDocx, DirUnreadable,
     EntryLstatFailed}

RECURSIVE SeqsUpTo(_, _)
SeqsUpTo(S, n) ==
    IF n = 0 THEN {<<>>}
    ELSE LET shorter == SeqsUpTo(S, n - 1)
         IN  shorter \cup {Append(q, x) : q \in shorter, x \in S}

Trees == {<<RootCall>> \o q : q \in SeqsUpTo(SampleCalls, MaxEntries)}

\* what goreq's Do can return: an error, or a response with some status
ProbeOutcomes == {"error", "status200", "status404"}

(***************************************************************************)
(* State                                                                   *)
(***************************************************************************)
VARIABLES
    tree,        \* the callback invocations filepath.Walk will make
    mpc,         \* main goroutine: position in main / getAndCheckFilesInDirectory
    file,        \* the loop variable of `for file := range fileChannel`
    documents,   \* the slice built by getAndCheckFilesInDirectory
    wg,          \* counter of the WaitGroup wg
    wpc,         \* walkDirectory goroutine: position
    wpos,        \* index in tree of the current callback invocation
    chanMsg,     \* <<d>> while the walker is blocked sending d on fileChannel
    chanClosed,  \* fileChannel has been closed
    chk,         \* chk[k]: counter of the checkingHyperlinks of iteration k
    ext,         \* ext[k]: the extractAndCheckHyperlinks goroutine of iteration k:
                 \* its position pc, the loop state of getLinkFileContent
                 \* (pos, buf), the readers it holds open (fds), the number
                 \* of readers it has opened, and the state of its own loop
    heap,        \* heap[a]: backing array a of a []Hyperlink slice
    probe,       \* probe[a][i]: the validate goroutine of element i of array a:
                 \* its position st, the outcome res of Do(), the WaitGroup wg
                 \* it was given, and the history counters calls (go
                 \* statements), reqs (requests issued), writes (of IsWorking)
    sent,        \* history: the Documents the walker has sent
    report,      \* <<r>> once main has built the Report r
    artifact,    \* outcome of report.create
    viewer,      \* outcome of report.open
    logs,        \* messages written with log.Println
    crashed,     \* "no", or the place of the panic that ended the process
    fpc,         \* a function applied on its own: "off", "input", "once", "twice"
    fin,         \* its argument
    fout,        \* its result
    fagain,      \* the result of applying it to its own result
    loop         \* the sequential main: <<l>> while it is in its loops, l
                 \* holding index, the local slice hyperlinks and the
                 \* position pos of the inner loop in it

\* the variables of a function applied on its own
pure == <<fpc, fin, fout, fagain>>

vars == <<tree, mpc, file, documents, wg, wpc, wpos, chanMsg, chanClosed, chk,
          ext, heap, probe, sent, report, artifact, viewer, logs, crashed,
          fpc, fin, fout, fagain, loop>>

\* the zero value of Document; Hyperlinks = 0 is the nil slice, otherwise the
\* index in heap of the backing array (the slice spans the whole array)
ZeroDocument == [Path |-> 0, Type |-> <<>>, IsValid |-> FALSE, Hyperlinks |-> 0]

\* the elements of a []Hyperlink value
Links(h) == IF h = 0 THEN <<>> ELSE heap[h]
\* variant: Wait that does not block
WaitReturnsAlways(counter) == counter = counter

\* sync.WaitGroup.Wait returns when the counter is zero
WaitReturns(counter) == counter = 0

\* the iteration of the range loop main is in
cur == Len(chk)

Init ==
    /\ tree \in Trees
    /\ mpc = "start"
    /\ file = ZeroDocument
    /\ documents = <<>>
    /\ wg = 0
    /\ wpc = "idle"
    /\ wpos = 1
    /\ chanMsg = <<>>
    /\ chanClosed = FALSE
    /\ chk = <<>>
    /\ ext = <<>>
    /\ heap = <<>>
    /\ probe = <<>>
    /\ sent = <<>>
    /\ report = <<>>
    /\ artifact = "none"
    /\ viewer = "none"
    /\ logs = {}
    /\ crashed = "no"
    /\ fpc = "off" /\ fin = <<>> /\ fout = <<>> /\ fagain = <<>>
    /\ loop = <<>>

(***************************************************************************)
(* walkDirectory                                                           *)
(***************************************************************************)
\* the callback is entered without file info: fileInfo.Name() panics
WalkPanic ==
    /\ crashed = "no" /\ wpc = "walk" /\ wpos <= Len(tree)
    /\ ~tree[wpos].hasInfo
    /\ crashed' = "walk"
    /\ UNCHANGED <<pure, loop, tree, mpc, file, documents, wg, wpc, wpos, chanMsg,
                   chanClosed, chk, ext, heap, probe, sent, report, artifact,
                   viewer, logs>>

\* the callback for an entry that is not sent; it returns nil
WalkSkip ==
    /\ crashed = "no" /\ wpc = "walk" /\ wpos <= Len(tree)
    /\ tree[wpos].hasInfo
    /\ Ext(tree[wpos].name) \notin {ExtDocx, ExtPptx}
    /\ wpos' = wpos + 1
    /\ UNCHANGED <<pure, loop, tree, mpc, file, documents, wg, wpc, chanMsg, chanClosed,
                   chk, ext, heap, probe, sent, report, artifact, viewer, logs,
                   crashed>>

\* the callback for a .docx/.pptx entry blocks in fileChannel <- file
WalkSend ==
    /\ crashed = "no" /\ wpc = "walk" /\ wpos <= Len(tree)
    /\ tree[wpos].hasInfo
    /\ Ext(tree[wpos].name) \in {ExtDocx, ExtPptx}
    /\ chanMsg' = <<[ZeroDocument EXCEPT !.Path = wpos,
                                         !.Type = Ext(tree[wpos].name)]>>
    /\ wpc' = "send"
    /\ UNCHANGED <<pure, loop, tree, mpc, file, documents, wg, wpos, chanClosed, chk, ext,
                   heap, probe, sent, report, artifact, viewer, logs, crashed>>

\* variant: the channel is closed inside the callback, before the walk ends
WalkCloseEarly ==
    /\ crashed = "no" /\ wpc = "walk"
    /\ chanClosed' = TRUE
    /\ wpc' = "closed"
    /\ UNCHANGED <<pure, loop, tree, mpc, file, documents, wg, wpos, chanMsg, chk, ext,
                   heap, probe, sent, report, artifact, viewer, logs, crashed>>

\* filepath.Walk has returned: close(fileChannel)
WalkClose ==
    /\ crashed = "no" /\ wpc = "walk" /\ wpos > Len(tree)
    /\ chanClosed' = TRUE
    /\ wpc' = "closed"
    /\ UNCHANGED <<pure, loop, tree, mpc, file, documents, wg, wpos, chanMsg, chk, ext,
                   heap, probe, sent, report, artifact, viewer, logs, crashed>>

\* wg.Done() at the end of walkDirectory
WalkDone ==
    /\ crashed = "no" /\ wpc = "closed"
    /\ wg' = wg - 1
    /\ wpc' = "exit"
    /\ crashed' = IF wg - 1 < 0 THEN "waitgroup" ELSE crashed
    /\ UNCHANGED <<pure, loop, tree, mpc, file, documents, wpos, chanMsg, chanClosed, chk,
                   ext, heap, probe, sent, report, artifact, viewer, logs>>

(***************************************************************************)
(* getAndCheckFilesInDirectory (called by main)                            *)
(***************************************************************************)
\* main up to `go walkDirectory(...)`
MainStart ==
    /\ crashed = "no" /\ mpc = "start"
    /\ documents' = <<>>
    /\ wg' = wg + 1
    /\ wpc' = "walk"
    /\ mpc' = "range"
    /\ UNCHANGED <<pure, loop, tree, file, wpos, chanMsg, chanClosed, chk, ext, heap, probe,
                   sent, report, artifact, viewer, logs, crashed>>

\* the range loop receives the Document the walker is sending (rendezvous)
MainReceive ==
    /\ crashed = "no" /\ mpc = "range"
    /\ wpc = "send" /\ chanMsg # <<>>
    /\ file' = chanMsg[1]
    /\ sent' = Append(sent, chanMsg[1])
    /\ chanMsg' = <<>>
    /\ wpc' = "walk"
    /\ wpos' = wpos + 1
    /\ mpc' = "check"
    /\ UNCHANGED <<pure, loop, tree, documents, wg, chanClosed, chk, ext, heap, probe,
                   report, artifact, viewer, logs, crashed>>

\* variant: the goroutine is started without checkingHyperlinks.Add(1)
MainCheckNoAdd ==
    /\ crashed = "no" /\ mpc = "check"
    /\ chk' = Append(chk, 0)
    /\ ext' = Append(ext, [pc |-> "extract", n |-> 0, index |-> 1, pos |-> 1,
                            buf |-> <<>>, fds |-> {}, opened |-> 0])
    /\ mpc' = "wait"
    /\ UNCHANGED <<pure, loop, tree, file, documents, wg, wpc, wpos, chanMsg, chanClosed,
                   heap, probe, sent, report, artifact, viewer, logs, crashed>>

\* checkingHyperlinks.Add(1); go extractAndCheckHyperlinks(&file, ...)
MainCheck ==
    /\ crashed = "no" /\ mpc = "check"
    /\ chk' = Append(chk, 1)
    /\ ext' = Append(ext, [pc |-> "extract", n |-> 0, index |-> 1, pos |-> 1,
                            buf |-> <<>>, fds |-> {}, opened |-> 0])
    /\ mpc' = "wait"
    /\ UNCHANGED <<pure, loop, tree, file, documents, wg, wpc, wpos, chanMsg, chanClosed,
                   heap, probe, sent, report, artifact, viewer, logs, crashed>>

\* variant: the slice holds references to the loop variable, so every entry
\* shows the document received last
MainAppendShared ==
    /\ crashed = "no" /\ mpc = "wait"
    /\ WaitReturns(chk[cur])
    /\ documents' = [d \in 1..(Len(documents) + 1) |-> file]
    /\ mpc' = "range"
    /\ UNCHANGED <<pure, loop, tree, file, wg, wpc, wpos, chanMsg, chanClosed, chk,
                   ext, heap, probe, sent, report, artifact, viewer, logs,
                   crashed>>

\* variant: a document without links is not appended
MainAppendSkipEmpty ==
    /\ crashed = "no" /\ mpc = "wait"
    /\ WaitReturns(chk[cur])
    /\ documents' = IF Links(file.Hyperlinks) = <<>> THEN documents
                    ELSE Append(documents, file)
    /\ mpc' = "range"
    /\ UNCHANGED <<pure, loop, tree, file, wg, wpc, wpos, chanMsg, chanClosed, chk,
                   ext, heap, probe, sent, report, artifact, viewer, logs,
                   crashed>>

\* checkingHyperlinks.Wait() returns; documents = append(documents, file)
MainAppend ==
    /\ crashed = "no" /\ mpc = "wait"
    /\ WaitReturns(chk[cur])
    /\ documents' = Append(documents, file)
    /\ mpc' = "range"
    /\ UNCHANGED <<pure, loop, tree, file, wg, wpc, wpos, chanMsg, chanClosed, chk, ext,
                   heap, probe, sent, report, artifact, viewer, logs, crashed>>

\* the range loop ends: the channel is closed (and, unbuffered, empty)
MainRangeEnd ==
    /\ crashed = "no" /\ mpc = "range"
    /\ chanClosed
    /\ mpc' = "wgwait"
    /\ UNCHANGED <<pure, loop, tree, file, documents, wg, wpc, wpos, chanMsg, chanClosed,
                   chk, ext, heap, probe, sent, report, artifact, viewer, logs,
                   crashed>>

\* variant: getAndCheckFilesInDirectory returns without wg.Wait()
MainReturnNoWait ==
    /\ crashed = "no" /\ mpc = "wgwait"
    /\ mpc' = "aggregate"
    /\ UNCHANGED <<pure, loop, tree, file, documents, wg, wpc, wpos, chanMsg, chanClosed,
                   chk, ext, heap, probe, sent, report, artifact, viewer, logs,
                   crashed>>

\* wg.Wait() returns; getAndCheckFilesInDirectory returns documents
MainReturn ==
    /\ crashed = "no" /\ mpc = "wgwait"
    /\ WaitReturns(wg)
    /\ mpc' = "aggregate"
    /\ UNCHANGED <<pure, loop, tree, file, documents, wg, wpc, wpos, chanMsg, chanClosed,
                   chk, ext, heap, probe, sent, report, artifact, viewer, logs,
                   crashed>>

(***************************************************************************)
(* extractAndCheckHyperlinks, one goroutine per iteration k                *)
(***************************************************************************)
\* the archive at the path of the Document that `file` points to
ArchiveOf(doc) == tree[doc.Path]

\* the entry of the archive that the loop of getLinkFileContent is at
EntryAt(k) == ArchiveOf(file).entries[ext[k].pos]

\* matchers[document.Type].MatchString(file.Name) for that entry
EntryMatches(k) == MatchString(TypeMatcher(file.Type), EntryAt(k).name)

\* getLinkFileContent uses a nil archive reader or a nil entry reader; the
\* deferred Close calls of the readers opened so far run while it unwinds
ExtractPanic(k) ==
    /\ crashed = "no"
    /\ \/ ext[k].pc = "extract" /\ ~ArchiveOf(file).zipOk
       \/ /\ ext[k].pc = "entries"
          /\ ext[k].pos <= Len(ArchiveOf(file).entries)
          /\ EntryMatches(k) /\ ~EntryAt(k).openOk
    /\ logs' = logs \cup {IF ArchiveOf(file).zipOk
                          THEN "ERROR: coult not read file content"
                          ELSE "ERROR: could not open the file"}
    /\ ext' = [ext EXCEPT ![k].fds = {}]
    /\ crashed' = "extract"
    /\ UNCHANGED <<pure, loop, tree, mpc, file, documents, wg, wpc, wpos, chanMsg,
                   chanClosed, chk, heap, probe, sent, report, artifact,
                   viewer>>

\* extractHyperlinksFromDocument(*file) up to zip.OpenReader and the defer of
\* documentContainer.Close(); handle 0 is the archive reader
ExtractOpen(k) ==
    /\ crashed = "no" /\ ext[k].pc = "extract"
    /\ ArchiveOf(file).zipOk
    /\ ext' = [ext EXCEPT ![k] =
                  [@ EXCEPT !.pc = "entries", !.pos = 1, !.buf = <<>>,
                            !.fds = {0}, !.opened = 1]]
    /\ UNCHANGED <<pure, loop, tree, mpc, file, documents, wg, wpc, wpos, chanMsg,
                   chanClosed, chk, heap, probe, sent, report, artifact,
                   viewer, logs, crashed>>

\* one iteration of the loop over documentContainer.File: a matching entry is
\* opened, its Close deferred and its content copied to the buffer
ExtractEntry(k) ==
    /\ crashed = "no" /\ ext[k].pc = "entries"
    /\ ext[k].pos <= Len(ArchiveOf(file).entries)
    /\ EntryMatches(k) => EntryAt(k).openOk
    /\ ext' = [ext EXCEPT ![k] =
                  IF EntryMatches(k)
                  THEN [@ EXCEPT !.pos = @ + 1,
                                 !.buf = @ \o EntryAt(k).content,
                                 !.fds = @ \cup {ext[k].pos},
                                 !.opened = @ + 1]
                  ELSE [@ EXCEPT !.pos = @ + 1]]
    /\ UNCHANGED <<pure, loop, tree, mpc, file, documents, wg, wpc, wpos, chanMsg,
                   chanClosed, chk, heap, probe, sent, report, artifact,
                   viewer, logs, crashed>>

\* extractHyperlinksFromContent tabulated for the buffers that
\* getLinkFileContent can return for the sampled archives
ExtractedLinks ==
    {[content |-> getLinkFileContent(c, Ext(c.name)),
      links   |-> extractHyperlinksFromContent(getLinkFileContent(c, Ext(c.name)))] :
        c \in {c \in SampleCalls : c.zipOk}}

\* extractHyperlinksFromContent(content), looked up
LinksOfContent(content) ==
    (CHOOSE r \in ExtractedLinks : r.content = content).links

\* variant: the Close of the entry readers is not deferred
ExtractKeepsReaders(k) ==
    /\ crashed = "no" /\ ext[k].pc = "entries"
    /\ ext[k].pos > Len(ArchiveOf(file).entries)
    /\ LET links == LinksOfContent(ext[k].buf)
       IN  /\ heap' = Append(heap, links)
           /\ probe' = Append(probe,
                  [i \in 1..Len(links) |->
                      [st |-> "none", res |-> "none", calls |-> 0,
                       reqs |-> 0, writes |-> 0, wg |-> 0]])
           /\ file' = [file EXCEPT !.Hyperlinks = Len(heap) + 1]
           /\ ext' = [ext EXCEPT ![k] =
                         [@ EXCEPT !.pc = "loop", !.n = Len(links),
                                   !.index = 1, !.buf = <<>>,
                                   !.fds = @ \ {0}]]
    /\ UNCHANGED <<pure, loop, tree, mpc, documents, wg, wpc, wpos, chanMsg, chanClosed,
                   chk, sent, report, artifact, viewer, logs, crashed>>

\* getLinkFileContent returns the buffer: every deferred Close runs; then
\* file.Hyperlinks = the filtered matches, in a new backing array
Extract(k) ==
    /\ crashed = "no" /\ ext[k].pc = "entries"
    /\ ext[k].pos > Len(ArchiveOf(file).entries)
    /\ LET links == LinksOfContent(ext[k].buf)
       IN  /\ heap' = Append(heap, links)
           /\ probe' = Append(probe,
                  [i \in 1..Len(links) |->
                      [st |-> "none", res |-> "none", calls |-> 0,
                       reqs |-> 0, writes |-> 0, wg |-> 0]])
           /\ file' = [file EXCEPT !.Hyperlinks = Len(heap) + 1]
           /\ ext' = [ext EXCEPT ![k] =
                         [@ EXCEPT !.pc = "loop", !.n = Len(links),
                                   !.index = 1, !.buf = <<>>, !.fds = {}]]
    /\ UNCHANGED <<pure, loop, tree, mpc, documents, wg, wpc, wpos, chanMsg, chanClosed,
                   chk, sent, report, artifact, viewer, logs, crashed>>
\* variant: the validate goroutine is started without wg.Add(1)
ExtractSpawnNoAdd(k) ==
    /\ crashed = "no" /\ ext[k].pc = "loop" /\ ext[k].index <= ext[k].n
    /\ file.Hyperlinks # 0 /\ ext[k].index <= Len(heap[file.Hyperlinks])
    /\ probe' = [probe EXCEPT ![file.Hyperlinks][ext[k].index] =
                    [@ EXCEPT !.st = "spawned", !.calls = @ + 1, !.wg = k]]
    /\ ext' = [ext EXCEPT ![k].index = @ + 1]
    /\ UNCHANGED <<pure, loop, tree, mpc, file, documents, wg, wpc, wpos, chanMsg,
                   chanClosed, chk, heap, sent, report, artifact, viewer, logs,
                   crashed>>

\* wg.Add(1); go file.Hyperlinks[index].validate(wg)
ExtractSpawn(k) ==
    /\ crashed = "no" /\ ext[k].pc = "loop" /\ ext[k].index <= ext[k].n
    /\ file.Hyperlinks # 0 /\ ext[k].index <= Len(heap[file.Hyperlinks])
    /\ chk' = [chk EXCEPT ![k] = @ + 1]
    /\ probe' = [probe EXCEPT ![file.Hyperlinks][ext[k].index] =
                    [@ EXCEPT !.st = "spawned", !.calls = @ + 1, !.wg = k]]
    /\ ext' = [ext EXCEPT ![k].index = @ + 1]
    /\ UNCHANGED <<pure, loop, tree, mpc, file, documents, wg, wpc, wpos, chanMsg,
                   chanClosed, heap, sent, report, artifact, viewer, logs,
                   crashed>>

\* variant: the goroutine ends without wg.Done()
ExtractExitNoDone(k) ==
    /\ crashed = "no" /\ ext[k].pc = "loop" /\ ext[k].index > ext[k].n
    /\ ext' = [ext EXCEPT ![k].pc = "exit"]
    /\ UNCHANGED <<pure, loop, tree, mpc, file, documents, wg, wpc, wpos, chanMsg,
                   chanClosed, chk, heap, probe, sent, report, artifact, viewer,
                   logs, crashed>>

\* wg.Done() after the loop
ExtractDone(k) ==
    /\ crashed = "no" /\ ext[k].pc = "loop" /\ ext[k].index > ext[k].n
    /\ chk' = [chk EXCEPT ![k] = @ - 1]
    /\ ext' = [ext EXCEPT ![k].pc = "exit"]
    /\ crashed' = IF chk[k] - 1 < 0 THEN "waitgroup" ELSE crashed
    /\ UNCHANGED <<pure, loop, tree, mpc, file, documents, wg, wpc, wpos, chanMsg,
                   chanClosed, heap, probe, sent, report, artifact, viewer,
                   logs>>

(***************************************************************************)
(* Hyperlink.validate, one goroutine per element i of array a              *)
(***************************************************************************)
\* goreq.Request{Uri: link.Url, Timeout: ...}.Do() is issued
ValidateRequest(a, i) ==
    /\ crashed = "no" /\ probe[a][i].st = "spawned"
    /\ probe' = [probe EXCEPT ![a][i] =
                    [@ EXCEPT !.st = "inflight", !.reqs = @ + 1]]
    /\ UNCHANGED <<pure, loop, tree, mpc, file, documents, wg, wpc, wpos, chanMsg,
                   chanClosed, chk, ext, heap, sent, report, artifact, viewer,
                   logs, crashed>>
\* variant: a failed request is issued once more
ValidateResponseRetry(a, i) ==
    /\ crashed = "no" /\ probe[a][i].st = "inflight"
    /\ \E o \in ProbeOutcomes :
          probe' = [probe EXCEPT ![a][i] =
                       IF o = "error" /\ probe[a][i].reqs < 2
                       THEN [@ EXCEPT !.st = "spawned"]
                       ELSE [@ EXCEPT !.st = "returned", !.res = o]]
    /\ UNCHANGED <<pure, loop, tree, mpc, file, documents, wg, wpc, wpos, chanMsg,
                   chanClosed, chk, ext, heap, sent, report, artifact, viewer,
                   logs, crashed>>

\* Do() returns, at the latest at its timeout
ValidateResponse(a, i) ==
    /\ crashed = "no" /\ probe[a][i].st = "inflight"
    /\ \E o \in ProbeOutcomes :
          probe' = [probe EXCEPT ![a][i] =
                       [@ EXCEPT !.st = "returned", !.res = o]]
    /\ UNCHANGED <<pure, loop, tree, mpc, file, documents, wg, wpc, wpos, chanMsg,
                   chanClosed, chk, ext, heap, sent, report, artifact, viewer,
                   logs, crashed>>
\* variant: only a 200 response counts as working
ClassifyByStatus(res) == IF res = "status200" THEN TRUE ELSE FALSE

\* the value validate stores for an outcome of Do()
Classify(res) == IF res = "error" THEN FALSE ELSE TRUE

\* variant: results are stored in the order the requests return
ValidateWriteByArrival(a, i) ==
    /\ crashed = "no" /\ probe[a][i].st = "returned"
    /\ LET slot == 1 + Cardinality({j \in 1..Len(heap[a]) :
                                       probe[a][j].st \in {"written", "exit"}})
       IN  heap' = [heap EXCEPT
                       ![a][slot].IsWorking = Classify(probe[a][i].res)]
    /\ probe' = [probe EXCEPT ![a][i] =
                    [@ EXCEPT !.st = "written", !.writes = @ + 1]]
    /\ UNCHANGED <<pure, loop, tree, mpc, file, documents, wg, wpc, wpos, chanMsg,
                   chanClosed, chk, ext, sent, report, artifact, viewer, logs,
                   crashed>>

\* link.IsWorking = false / true
ValidateWrite(a, i) ==
    /\ crashed = "no" /\ probe[a][i].st = "returned"
    /\ heap' = [heap EXCEPT ![a][i].IsWorking = Classify(probe[a][i].res)]
    /\ probe' = [probe EXCEPT ![a][i] =
                    [@ EXCEPT !.st = "written", !.writes = @ + 1]]
    /\ UNCHANGED <<pure, loop, tree, mpc, file, documents, wg, wpc, wpos, chanMsg,
                   chanClosed, chk, ext, sent, report, artifact, viewer, logs,
                   crashed>>
\* variant: wg.Done() is called before the assignment, which is then lost
ValidateDoneBeforeWrite(a, i) ==
    /\ crashed = "no" /\ probe[a][i].st \in {"returned", "written"}
    /\ chk' = [chk EXCEPT ![probe[a][i].wg] = @ - 1]
    /\ probe' = [probe EXCEPT ![a][i] = [@ EXCEPT !.st = "exit", !.res = "none"]]
    /\ crashed' = IF chk[probe[a][i].wg] - 1 < 0 THEN "waitgroup" ELSE crashed
    /\ UNCHANGED <<pure, loop, tree, mpc, file, documents, wg, wpc, wpos, chanMsg,
                   chanClosed, ext, heap, sent, report, artifact, viewer, logs>>

\* wg.Done() at the end of validate; the goroutine and its local err end
ValidateDone(a, i) ==
    /\ crashed = "no" /\ probe[a][i].st = "written"
    /\ chk' = [chk EXCEPT ![probe[a][i].wg] = @ - 1]
    /\ probe' = [probe EXCEPT ![a][i] = [@ EXCEPT !.st = "exit", !.res = "none"]]
    /\ crashed' = IF chk[probe[a][i].wg] - 1 < 0 THEN "waitgroup" ELSE crashed
    /\ UNCHANGED <<pure, loop, tree, mpc, file, documents, wg, wpc, wpos, chanMsg,
                   chanClosed, ext, heap, sent, report, artifact, viewer, logs>>

(***************************************************************************)
(* main after getAndCheckFilesInDirectory                                  *)
(***************************************************************************)
\* variant: a working link sets the flag back to true
RECURSIVE ValidityAfterLastWins(_, _, _)
ValidityAfterLastWins(links, i, valid) ==
    IF i > Len(links) THEN valid
    ELSE ValidityAfterLastWins(links, i + 1,
                               IF links[i].IsWorking = FALSE THEN FALSE ELSE TRUE)

\* the inner loop of main over one document's links, from position i
RECURSIVE ValidityAfter(_, _, _)
ValidityAfter(links, i, valid) ==
    IF i > Len(links) THEN valid
    ELSE ValidityAfter(links, i + 1,
                       IF links[i].IsWorking = FALSE THEN FALSE ELSE valid)

\* documents[index].IsValid after the loops of main
MarkDocuments(docs) ==
    [index \in 1..Len(docs) |->
        [docs[index] EXCEPT
            !.IsValid = ValidityAfter(Links(docs[index].Hyperlinks), 1, TRUE)]]

\* variant: ResultOfValidation is left at its zero value
ResultUnset(docs, index, result) == FALSE

\* resultOfValidation after the loops of main, from document index on
RECURSIVE ResultAfter(_, _, _)
ResultAfter(docs, index, result) ==
    IF index > Len(docs) THEN result
    ELSE ResultAfter(docs, index + 1,
             ValidityAfter(Links(docs[index].Hyperlinks), 1, result))

\* the Report literal of main; InvalidHyperlinks is not set and stays nil
BuildReport(docs, result) ==
    [ResultOfValidation |-> result,
     Directories        |-> <<".">>,
     Documents          |-> docs,
     InvalidHyperlinks  |-> <<>>]

\* main from `var resultOfValidation` to the Report literal
MainAggregate ==
    /\ crashed = "no" /\ mpc = "aggregate"
    /\ documents' = MarkDocuments(documents)
    /\ report' = <<BuildReport(MarkDocuments(documents),
                               ResultAfter(documents, 1, TRUE))>>
    /\ mpc' = "create"
    /\ UNCHANGED <<pure, loop, tree, file, wg, wpc, wpos, chanMsg, chanClosed, chk, ext,
                   heap, probe, sent, artifact, viewer, logs, crashed>>

\* report.create(): main ignores the returned bool
ReportCreate ==
    /\ crashed = "no" /\ mpc = "create"
    /\ \E ok \in BOOLEAN :
          /\ artifact' = IF ok THEN "written" ELSE "failed"
          /\ logs' = IF ok THEN logs
                     ELSE logs \cup {"Could not fill the template with report data"}
    /\ mpc' = "open"
    /\ UNCHANGED <<pure, loop, tree, file, documents, wg, wpc, wpos, chanMsg, chanClosed,
                   chk, ext, heap, probe, sent, report, viewer, crashed>>

\* variant: a viewer that cannot be started ends the process (log.Fatal)
ReportOpenFatal ==
    /\ crashed = "no" /\ mpc = "open"
    /\ \E ok \in BOOLEAN :
          /\ viewer' = IF ok THEN "opened" ELSE "failed"
          /\ logs' = IF ok THEN logs \cup {"Finished!"}
                     ELSE logs \cup {"Could not open report"}
          /\ mpc' = IF ok THEN "finished" ELSE mpc
    /\ UNCHANGED <<pure, loop, tree, file, documents, wg, wpc, wpos, chanMsg, chanClosed,
                   chk, ext, heap, probe, sent, report, artifact, crashed>>

\* report.open(), then the rest of main: log.Printf("Finished! ...")
ReportOpen ==
    /\ crashed = "no" /\ mpc = "open"
    /\ \E ok \in BOOLEAN :
          /\ viewer' = IF ok THEN "opened" ELSE "failed"
          /\ logs' = IF ok THEN logs \cup {"Finished!"}
                     ELSE logs \cup {"Could not open report", "Finished!"}
    /\ mpc' = "finished"
    /\ UNCHANGED <<pure, loop, tree, file, documents, wg, wpc, wpos, chanMsg, chanClosed,
                   chk, ext, heap, probe, sent, report, artifact, crashed>>

(***************************************************************************)
(* Specification                                                           *)
(***************************************************************************)
Iterations == 1..Len(ext)

Next ==
    \/ MainStart
    \/ WalkPanic
    \/ WalkSkip
    \/ WalkSend
    \/ WalkClose
    \/ WalkDone
    \/ MainReceive
    \/ MainCheck
    \/ MainAppend
    \/ MainRangeEnd
    \/ MainReturn
    \/ \E k \in Iterations : ExtractPanic(k)
    \/ \E k \in Iterations : ExtractOpen(k)
    \/ \E k \in Iterations : ExtractEntry(k)
    \/ \E k \in Iterations : Extract(k)
    \/ \E k \in Iterations : ExtractSpawn(k)
    \/ \E k \in Iterations : ExtractDone(k)
    \/ \E a \in 1..Len(heap) : \E i \in 1..Len(heap[a]) : ValidateRequest(a, i)
    \/ \E a \in 1..Len(heap) : \E i \in 1..Len(heap[a]) : ValidateResponse(a, i)
    \/ \E a \in 1..Len(heap) : \E i \in 1..Len(heap[a]) : ValidateWrite(a, i)
    \/ \E a \in 1..Len(heap) : \E i \in 1..Len(heap[a]) : ValidateDone(a, i)
    \/ MainAggregate
    \/ ReportCreate
    \/ ReportOpen

Spec == Init /\ [][Next]_vars

(***************************************************************************)
(* The pipeline under fair scheduling.  The Go scheduler runs every        *)
(* goroutine that is not blocked, and every request returns at its timeout *)
(* at the latest, so a step that stays possible is eventually taken.  The  *)
(* trees are drawn from fewer kinds of entry.                              *)
(***************************************************************************)
LiveCalls == {FileTwoLinks, FileNoLinks, FileText, FileCorrupt, EntryLstatFailed}

LiveTrees == {<<RootCall>> \o q : q \in SeqsUpTo(LiveCalls, MaxLiveEntries)}

LiveInit ==
    /\ tree \in LiveTrees
    /\ mpc = "start"
    /\ file = ZeroDocument
    /\ documents = <<>>
    /\ wg = 0
    /\ wpc = "idle"
    /\ wpos = 1
    /\ chanMsg = <<>>
    /\ chanClosed = FALSE
    /\ chk = <<>>
    /\ ext = <<>>
    /\ heap = <<>>
    /\ probe = <<>>
    /\ sent = <<>>
    /\ report = <<>>
    /\ artifact = "none"
    /\ viewer = "none"
    /\ logs = {}
    /\ crashed = "no"
    /\ fpc = "off" /\ fin = <<>> /\ fout = <<>> /\ fagain = <<>>
    /\ loop = <<>>

SpecLive == LiveInit /\ [][Next]_vars /\ WF_vars(Next)

(***************************************************************************)
(* filterHyperlinks applied on its own to bounded link sequences           *)
(***************************************************************************)
\* a mailto: text that is not the scheme
uMailLater == <<"http://a", "/?to=", "mailto:", "x@y">>
\* a host that differs from the vendor domain in a dot position
uDotVariant == <<"http://office", "-", "microsoft", ".", "com">>

FilterUrls == {<<>>, uA, uB, uMicrosoft, uMail, uMailLater, uDotVariant}

\* the slices extractHyperlinksFromContent can hand to filterHyperlinks
FilterInputs ==
    {[i \in 1..Len(q) |-> [Url |-> q[i], IsWorking |-> FALSE]] :
        q \in SeqsUpTo(FilterUrls, MaxFilterLen)}

\* the pipeline does not run
PipelineIdle ==
    /\ tree = <<RootCall>>
    /\ mpc = "off"
    /\ file = ZeroDocument
    /\ documents = <<>>
    /\ wg = 0
    /\ wpc = "idle"
    /\ wpos = 1
    /\ chanMsg = <<>>
    /\ chanClosed = FALSE
    /\ chk = <<>>
    /\ ext = <<>>
    /\ heap = <<>>
    /\ probe = <<>>
    /\ sent = <<>>
    /\ report = <<>>
    /\ artifact = "none"
    /\ viewer = "none"
    /\ logs = {}
    /\ crashed = "no"
    /\ loop = <<>>

pipeline == <<tree, mpc, file, documents, wg, wpc, wpos, chanMsg, chanClosed,
              chk, ext, heap, probe, sent, report, artifact, viewer, logs,
              crashed, loop>>

FilterInit ==
    /\ PipelineIdle
    /\ fpc = "input"
    /\ fin \in FilterInputs
    /\ fout = <<>>
    /\ fagain = <<>>

\* links = filterHyperlinks(links)
ApplyFilter ==
    /\ fpc = "input"
    /\ fout' = filterHyperlinks(fin)
    /\ fpc' = "once"
    /\ UNCHANGED <<pipeline, fin, fagain>>

\* filterHyperlinks applied to what it returned
ApplyFilterAgain ==
    /\ fpc = "once"
    /\ fagain' = filterHyperlinks(fout)
    /\ fpc' = "twice"
    /\ UNCHANGED <<pipeline, fin, fout>>

FilterNext ==
    \/ ApplyFilter
    \/ ApplyFilterAgain

SpecFilter == FilterInit /\ [][FilterNext]_vars

(***************************************************************************)
(* extractHyperlinksFromDocument applied on its own to bounded archives    *)
(***************************************************************************)
\* the relationship records a manifest is built from
ManifestRecords ==
    {HyperlinkRecord(uA), HyperlinkRecord(uB), HyperlinkRecord(<<>>), ImageRecord}

RECURSIVE Flatten(_)
Flatten(q) == IF q = <<>> THEN <<>> ELSE Head(q) \o Flatten(Tail(q))

\* entry contents of up to n records
Contents(n) == {Flatten(q) : q \in SeqsUpTo(ManifestRecords, n)}

EntryNames == {DocxManifest, Slide1Manifest, Slide2Manifest, OtherPart}

\* readable archives of one or two entries; the second entry is short
ExtractInputs ==
    LET first  == {Entry(nm, TRUE, c) : nm \in EntryNames, c \in Contents(MaxRecords)}
        second == {Entry(nm, TRUE, c) : nm \in EntryNames, c \in Contents(1)}
        files  == {<<e>> : e \in first} \cup {<<e1, e2>> : e1 \in first, e2 \in second}
    IN  {[archive |-> WalkCall(<<"x">> \o type, TRUE, FALSE, FALSE, TRUE, es),
          type    |-> type] : es \in files, type \in {ExtDocx, ExtPptx}}

ExtractInit ==
    /\ PipelineIdle
    /\ fpc = "input"
    /\ fin \in ExtractInputs
    /\ fout = <<>>
    /\ fagain = <<>>

\* extractHyperlinksFromDocument(document)
ExtractDocument ==
    /\ fpc = "input"
    /\ fout' = extractHyperlinksFromDocument(fin.archive, fin.type)
    /\ fpc' = "once"
    /\ UNCHANGED <<pipeline, fin, fagain>>

\* the same call on the same bytes once more
ExtractDocumentAgain ==
    /\ fpc = "once"
    /\ fagain' = extractHyperlinksFromDocument(fin.archive, fin.type)
    /\ fpc' = "twice"
    /\ UNCHANGED <<pipeline, fin, fout>>

ExtractNext ==
    \/ ExtractDocument
    \/ ExtractDocumentAgain

SpecExtract == ExtractInit /\ [][ExtractNext]_vars

(***************************************************************************)
(* The earlier concurrent iteration of getAndCheckFilesInDirectory: the    *)
(* walker is started without wg.Add, one goroutine per received file       *)
(* changes the type of the loop variable and calls Done, and the function  *)
(* waits on doneChannel and then on the WaitGroup.                         *)
(***************************************************************************)
EarlyCalls == {FileTwoLinks, FileSlides, FileText, EntryLstatFailed}

EarlyTrees == {<<RootCall>> \o q : q \in SeqsUpTo(EarlyCalls, MaxLiveEntries)}

EarlyInit ==
    /\ tree \in EarlyTrees
    /\ mpc = "start"
    /\ file = ZeroDocument
    /\ documents = <<>>
    /\ wg = 0
    /\ wpc = "idle"
    /\ wpos = 1
    /\ chanMsg = <<>>
    /\ chanClosed = FALSE
    /\ chk = <<>>
    /\ ext = <<>>
    /\ heap = <<>>
    /\ probe = <<>>
    /\ sent = <<>>
    /\ report = <<>>
    /\ artifact = "none"
    /\ viewer = "none"
    /\ logs = {}
    /\ crashed = "no"
    /\ fpc = "off" /\ fin = <<>> /\ fout = <<>> /\ fagain = <<>>
    /\ loop = <<>>

\* what the early actions leave alone
earlyFrame == <<pure, loop, tree, chk, heap, probe, report, artifact, viewer>>

\* getAndCheckFilesInDirectory up to `go walkDirectory(...)`: the channels
\* and the WaitGroup are made, nothing is added to the WaitGroup
EarlyMainStart ==
    /\ crashed = "no" /\ mpc = "start"
    /\ documents' = <<>>
    /\ wpc' = "walk"
    /\ mpc' = "range"
    /\ UNCHANGED <<earlyFrame, file, wg, wpos, chanMsg, chanClosed, ext, sent,
                   logs, crashed>>

\* the callback is entered without file info: fileInfo.Name() panics
EarlyWalkPanic ==
    /\ crashed = "no" /\ wpc = "walk" /\ wpos <= Len(tree)
    /\ ~tree[wpos].hasInfo
    /\ crashed' = "walk"
    /\ UNCHANGED <<earlyFrame, mpc, file, documents, wg, wpc, wpos, chanMsg,
                   chanClosed, ext, sent, logs>>

\* the callback for an entry with another extension; it returns nil
EarlyWalkSkip ==
    /\ crashed = "no" /\ wpc = "walk" /\ wpos <= Len(tree)
    /\ tree[wpos].hasInfo
    /\ ~(Ext(tree[wpos].name) = ExtDocx \/ Ext(tree[wpos].name) = ExtPptx)
    /\ wpos' = wpos + 1
    /\ UNCHANGED <<earlyFrame, mpc, file, documents, wg, wpc, chanMsg,
                   chanClosed, ext, sent, logs, crashed>>

\* the callback for a .docx/.pptx entry blocks in fileChannel <- file
EarlyWalkSend ==
    /\ crashed = "no" /\ wpc = "walk" /\ wpos <= Len(tree)
    /\ tree[wpos].hasInfo
    /\ Ext(tree[wpos].name) = ExtDocx \/ Ext(tree[wpos].name) = ExtPptx
    /\ chanMsg' = <<[ZeroDocument EXCEPT !.Path = wpos,
                                         !.Type = Ext(tree[wpos].name)]>>
    /\ wpc' = "send"
    /\ UNCHANGED <<earlyFrame, mpc, file, documents, wg, wpos, chanClosed, ext,
                   sent, logs, crashed>>

\* filepath.Walk has returned: close(fileChannel)
EarlyWalkClose ==
    /\ crashed = "no" /\ wpc = "walk" /\ wpos > Len(tree)
    /\ chanClosed' = TRUE
    /\ wpc' = "closed"
    /\ UNCHANGED <<earlyFrame, mpc, file, documents, wg, wpos, chanMsg, ext,
                   sent, logs, crashed>>

\* wg.Done() at the end of walkDirectory; a counter below zero panics
EarlyWalkDone ==
    /\ crashed = "no" /\ wpc = "closed"
    /\ wg' = wg - 1
    /\ wpc' = "exit"
    /\ crashed' = IF wg - 1 < 0 THEN "waitgroup" ELSE crashed
    /\ UNCHANGED <<earlyFrame, mpc, file, documents, wpos, chanMsg, chanClosed,
                   ext, sent, logs>>

\* the range loop receives the Document the walker is sending (rendezvous)
EarlyMainReceive ==
    /\ crashed = "no" /\ mpc = "range"
    /\ wpc = "send" /\ chanMsg # <<>>
    /\ file' = chanMsg[1]
    /\ sent' = Append(sent, chanMsg[1])
    /\ chanMsg' = <<>>
    /\ wpc' = "walk"
    /\ wpos' = wpos + 1
    /\ mpc' = "body"
    /\ UNCHANGED <<earlyFrame, documents, wg, chanClosed, ext, logs, crashed>>

\* the loop body: documents = append(documents, &file); wg.Add(1);
\* go extractAndCheckHyperlinks(&file, &wg)
EarlyMainCheck ==
    /\ crashed = "no" /\ mpc = "body"
    /\ documents' = Append(documents, "&file")
    /\ wg' = wg + 1
    /\ ext' = Append(ext, [pc |-> "type"])
    /\ mpc' = "range"
    /\ UNCHANGED <<earlyFrame, file, wpc, wpos, chanMsg, chanClosed, sent, logs,
                   crashed>>

\* the range loop ends: the channel is closed; main goes on to <-doneChannel
EarlyMainRangeEnd ==
    /\ crashed = "no" /\ mpc = "range"
    /\ chanClosed
    /\ mpc' = "donewait"
    /\ UNCHANGED <<earlyFrame, file, documents, wg, wpc, wpos, chanMsg,
                   chanClosed, ext, sent, logs, crashed>>

\* The receive <-doneChannel has no step: doneChannel is made in
\* getAndCheckFilesInDirectory and handed to nobody, so no statement sends on
\* it or closes it.  wg.Wait() and the return come after it.

\* extractAndCheckHyperlinks: doc.Type = "this is a new type", through the
\* pointer to the loop variable
EarlyExtractType(k) ==
    /\ crashed = "no" /\ ext[k].pc = "type"
    /\ file' = [file EXCEPT !.Type = <<"this is a new type">>]
    /\ logs' = logs \cup {"we are changing the type"}
    /\ ext' = [ext EXCEPT ![k].pc = "done"]
    /\ UNCHANGED <<earlyFrame, mpc, documents, wg, wpc, wpos, chanMsg,
                   chanClosed, sent, crashed>>

\* extractAndCheckHyperlinks: wg.Done(); a counter below zero panics
EarlyExtractDone(k) ==
    /\ crashed = "no" /\ ext[k].pc = "done"
    /\ wg' = wg - 1
    /\ ext' = [ext EXCEPT ![k].pc = "exit"]
    /\ crashed' = IF wg - 1 < 0 THEN "waitgroup" ELSE crashed
    /\ UNCHANGED <<earlyFrame, mpc, file, documents, wpc, wpos, chanMsg,
                   chanClosed, sent, logs>>

EarlyNext ==
    \/ EarlyMainStart
    \/ EarlyWalkPanic
    \/ EarlyWalkSkip
    \/ EarlyWalkSend
    \/ EarlyWalkClose
    \/ EarlyWalkDone
    \/ EarlyMainReceive
    \/ EarlyMainCheck
    \/ EarlyMainRangeEnd
    \/ \E k \in Iterations : EarlyExtractType(k)
    \/ \E k \in Iterations : EarlyExtractDone(k)

\* every goroutine that is not blocked is eventually run
SpecEarly == EarlyInit /\ [][EarlyNext]_vars /\ WF_vars(EarlyNext)

(***************************************************************************)
(* The sequential iteration: main collects the documents with              *)
(* getFilesInDirectory and then, one document and one link at a time,      *)
(* extracts, probes and records the links, and renders the Report.         *)
(***************************************************************************)
\* strings.HasSuffix
HasSuffix(name, suffix) ==
    /\ Len(name) >= Len(suffix)
    /\ SubSeq(name, Len(name) - Len(suffix) + 1, Len(name)) = suffix

\* the test of this iteration's filterHyperlinks for one link: it has no
\* mailto matcher
RetainedSequential(url) ==
    LET isMicrosoft == MatchString(matchers.microsoft, url)
        isEmpty     == (url = <<>>)
    IN  isMicrosoft = FALSE /\ isEmpty = FALSE

RECURSIVE filterHyperlinksSequential(_)
filterHyperlinksSequential(hyperlinks) ==
    IF hyperlinks = <<>> THEN <<>>
    ELSE LET link == Head(hyperlinks)
             rest == filterHyperlinksSequential(Tail(hyperlinks))
         IN  IF RetainedSequential(link.Url) THEN <<link>> \o rest ELSE rest

\* extractHyperlinkFromDocument(document) when no reader is nil
extractHyperlinkFromDocument(archive, type) ==
    LET matches == FindAllTargets(getLinkFileContent(archive, type), 1)
        links   == [index \in 1..Len(matches) |->
                       [Url |-> matches[index], IsWorking |-> FALSE]]
    IN  filterHyperlinksSequential(links)

\* isHyperlinkWorking for an outcome of Do()
isHyperlinkWorking(res) == IF res = "error" THEN FALSE ELSE TRUE

SequentialCalls ==
    {FileTwoLinks, FileSlides, FileNoLinks, FileCorrupt, FileText,
     EntryLstatFailed}

SequentialTrees ==
    {<<RootCall>> \o q : q \in SeqsUpTo(SequentialCalls, MaxEntries)}

SequentialInit ==
    /\ tree \in SequentialTrees
    /\ mpc = "start"
    /\ file = ZeroDocument
    /\ documents = <<>>
    /\ wg = 0
    /\ wpc = "idle"
    /\ wpos = 1
    /\ chanMsg = <<>>
    /\ chanClosed = FALSE
    /\ chk = <<>>
    /\ ext = <<>>
    /\ heap = <<>>
    /\ probe = <<>>
    /\ sent = <<>>
    /\ report = <<>>
    /\ artifact = "none"
    /\ viewer = "none"
    /\ logs = {}
    /\ crashed = "no"
    /\ fpc = "off" /\ fin = <<>> /\ fout = <<>> /\ fagain = <<>>
    /\ loop = <<>>

\* what the sequential actions leave alone
sequentialFrame ==
    <<pure, tree, file, wg, wpc, chanMsg, chanClosed, chk, ext, probe, sent>>

\* main up to the call of getFilesInDirectory(".") and its files := []Document{}
SequentialStart ==
    /\ crashed = "no" /\ mpc = "start"
    /\ documents' = <<>>
    /\ mpc' = "walk"
    /\ UNCHANGED <<sequentialFrame, wpos, heap, report, artifact, viewer, logs,
                   crashed, loop>>

\* the callback is entered without file info: fileInfo.Name() panics
SequentialWalkPanic ==
    /\ crashed = "no" /\ mpc = "walk" /\ wpos <= Len(tree)
    /\ ~tree[wpos].hasInfo
    /\ crashed' = "walk"
    /\ UNCHANGED <<sequentialFrame, mpc, documents, wpos, heap, report,
                   artifact, viewer, logs, loop>>

\* the callback for a name with another suffix; it returns nil
SequentialWalkSkip ==
    /\ crashed = "no" /\ mpc = "walk" /\ wpos <= Len(tree)
    /\ tree[wpos].hasInfo
    /\ ~(HasSuffix(tree[wpos].name, ExtDocx) \/ HasSuffix(tree[wpos].name, ExtPptx))
    /\ wpos' = wpos + 1
    /\ UNCHANGED <<sequentialFrame, mpc, documents, heap, report, artifact,
                   viewer, logs, crashed, loop>>

\* the callback for a .docx/.pptx name: files = append(files, file)
SequentialWalkAppend ==
    /\ crashed = "no" /\ mpc = "walk" /\ wpos <= Len(tree)
    /\ tree[wpos].hasInfo
    /\ HasSuffix(tree[wpos].name, ExtDocx) \/ HasSuffix(tree[wpos].name, ExtPptx)
    /\ documents' = Append(documents,
                        [ZeroDocument EXCEPT !.Path = wpos,
                                             !.Type = Ext(tree[wpos].name)])
    /\ wpos' = wpos + 1
    /\ UNCHANGED <<sequentialFrame, mpc, heap, report, artifact, viewer, logs,
                   crashed, loop>>

\* getFilesInDirectory returns; main builds the Report literal, which sets
\* Directories, Documents (a pointer to documents) and Date, and enters the
\* loop over the documents
SequentialReport ==
    /\ crashed = "no" /\ mpc = "walk" /\ wpos > Len(tree)
    /\ report' = <<[ResultOfValidation |-> FALSE,
                    Directories        |-> <<".">>,
                    Documents          |-> "&documents",
                    InvalidHyperlinks  |-> <<>>]>>
    /\ loop' = <<[index |-> 1, hyperlinks |-> <<>>, pos |-> 1]>>
    /\ mpc' = "documents"
    /\ UNCHANGED <<sequentialFrame, documents, wpos, heap, artifact, viewer,
                   logs, crashed>>

\* getLinkFileContent uses a nil archive reader or a nil entry reader
SequentialExtractPanic ==
    /\ crashed = "no" /\ mpc = "documents"
    /\ loop[1].index <= Len(documents)
    /\ ExtractionPanics(ArchiveOf(documents[loop[1].index]),
                        documents[loop[1].index].Type)
    /\ documents' = [documents EXCEPT ![loop[1].index].IsValid = TRUE]
    /\ logs' = logs \cup {IF ArchiveOf(documents[loop[1].index]).zipOk
                          THEN "ERROR: coult not read file content"
                          ELSE "ERROR: could not open the file"}
    /\ crashed' = "extract"
    /\ UNCHANGED <<sequentialFrame, mpc, wpos, heap, report, artifact, viewer,
                   loop>>

\* documents[index].IsValid = true;
\* hyperlinks := extractHyperlinkFromDocument(documents[index])
SequentialExtract ==
    /\ crashed = "no" /\ mpc = "documents"
    /\ loop[1].index <= Len(documents)
    /\ ~ExtractionPanics(ArchiveOf(documents[loop[1].index]),
                         documents[loop[1].index].Type)
    /\ documents' = [documents EXCEPT ![loop[1].index].IsValid = TRUE]
    /\ loop' = <<[loop[1] EXCEPT
                    !.hyperlinks = extractHyperlinkFromDocument(
                                       ArchiveOf(documents[loop[1].index]),
                                       documents[loop[1].index].Type),
                    !.pos = 1]>>
    /\ mpc' = "links"
    /\ UNCHANGED <<sequentialFrame, wpos, heap, report, artifact, viewer, logs,
                   crashed>>

\* one iteration of the loop over hyperlinks: the link is probed, appended to
\* documents[index].Hyperlinks and, when it does not work, the document is
\* marked invalid and the link appended to report.InvalidHyperlinks
SequentialProbe ==
    /\ crashed = "no" /\ mpc = "links"
    /\ loop[1].pos <= Len(loop[1].hyperlinks)
    /\ \E o \in ProbeOutcomes :
          LET index == loop[1].index
              link  == [loop[1].hyperlinks[loop[1].pos] EXCEPT
                           !.IsWorking = isHyperlinkWorking(o)]
              a     == documents[index].Hyperlinks
          IN  /\ heap' = IF a = 0 THEN Append(heap, <<link>>)
                         ELSE [heap EXCEPT ![a] = Append(@, link)]
              /\ documents' =
                    [documents EXCEPT ![index] =
                        [@ EXCEPT !.Hyperlinks = IF a = 0 THEN Len(heap) + 1 ELSE a,
                                  !.IsValid = IF link.IsWorking = FALSE
                                              THEN FALSE ELSE @]]
              /\ report' = IF link.IsWorking = FALSE
                           THEN <<[report[1] EXCEPT
                                     !.InvalidHyperlinks = Append(@, link)]>>
                           ELSE report
    /\ loop' = <<[loop[1] EXCEPT !.pos = @ + 1]>>
    /\ UNCHANGED <<sequentialFrame, mpc, wpos, artifact, viewer, logs, crashed>>

\* the loop over hyperlinks ends: the next document
SequentialNextDocument ==
    /\ crashed = "no" /\ mpc = "links"
    /\ loop[1].pos > Len(loop[1].hyperlinks)
    /\ loop' = <<[loop[1] EXCEPT !.index = @ + 1, !.hyperlinks = <<>>, !.pos = 1]>>
    /\ mpc' = "documents"
    /\ UNCHANGED <<sequentialFrame, documents, wpos, heap, report, artifact,
                   viewer, logs, crashed>>

\* the loop over the documents ends: report.create() renders the Report; a
\* template error panics
SequentialCreate ==
    /\ crashed = "no" /\ mpc = "documents"
    /\ loop[1].index > Len(documents)
    /\ \E ok \in BOOLEAN :
          /\ artifact' = IF ok THEN "written" ELSE "failed"
          /\ crashed' = IF ok THEN crashed ELSE "create"
    /\ loop' = <<>>
    /\ mpc' = "open"
    /\ UNCHANGED <<sequentialFrame, documents, wpos, heap, report, viewer, logs>>

\* report.open(): a viewer that cannot be started ends the process
\* (log.Fatal); otherwise main returns
SequentialOpen ==
    /\ crashed = "no" /\ mpc = "open"
    /\ \E ok \in BOOLEAN :
          /\ viewer' = IF ok THEN "opened" ELSE "failed"
          /\ crashed' = IF ok THEN crashed ELSE "fatal"
          /\ mpc' = IF ok THEN "finished" ELSE mpc
    /\ UNCHANGED <<sequentialFrame, documents, wpos, heap, report, artifact,
                   logs, loop>>

SequentialNext ==
    \/ SequentialStart
    \/ SequentialWalkPanic
    \/ SequentialWalkSkip
    \/ SequentialWalkAppend
    \/ SequentialReport
    \/ SequentialExtractPanic
    \/ SequentialExtract
    \/ SequentialProbe
    \/ SequentialNextDocument
    \/ SequentialCreate
    \/ SequentialOpen

SpecSequential == SequentialInit /\ [][SequentialNext]_vars

(***************************************************************************)
(* Properties                                                              *)
(***************************************************************************)
\* the validate goroutines that have been started and have not ended
Unfinished == {"spawned", "inflight", "returned", "written"}

\* every element of backing array a has been probed and its goroutine ended
AllResolved(a) ==
    /\ a # 0
    /\ \A i \in 1..Len(heap[a]) :
          /\ probe[a][i].st = "exit"
          /\ probe[a][i].reqs = 1
          /\ probe[a][i].writes = 1

\* main has left getAndCheckFilesInDirectory
AfterScan == mpc \in {"aggregate", "create", "open", "finished"}

\* C1: in the Report built by main, a Document is valid if and only if every
\* one of its Hyperlinks is working.
C1_DocumentValidIffAllLinksWorking ==
    \A r \in 1..Len(report) : \A d \in 1..Len(report[r].Documents) :
        LET doc == report[r].Documents[d]
        IN  doc.IsValid <=>
                \A i \in 1..Len(Links(doc.Hyperlinks)) :
                    Links(doc.Hyperlinks)[i].IsWorking = TRUE

\* a reported document with one working and one broken link, both listed
C1_Witness ==
    \E r \in 1..Len(report) : \E d \in 1..Len(report[r].Documents) :
        LET doc == report[r].Documents[d]
        IN  /\ Len(Links(doc.Hyperlinks)) = 2
            /\ Links(doc.Hyperlinks)[1].IsWorking = FALSE
            /\ Links(doc.Hyperlinks)[2].IsWorking = TRUE
            /\ doc.IsValid = FALSE

\* C2: for the Report built by main the three conditions are equivalent:
\* ResultOfValidation is true, every Document is valid, InvalidHyperlinks is
\* empty.
C2_ReportInvariant ==
    \A r \in 1..Len(report) :
        LET allValid == \A d \in 1..Len(report[r].Documents) :
                            report[r].Documents[d].IsValid
        IN  /\ report[r].ResultOfValidation <=> allValid
            /\ report[r].ResultOfValidation <=>
                   (report[r].InvalidHyperlinks = <<>>)

\* C3: a Document is appended to the result list (and later marked valid or
\* invalid) only when its extraction has finished and every validate goroutine
\* started for it has written IsWorking and called Done.
C3_DocumentBarrier ==
    \A j \in 1..Len(documents) :
        /\ j <= Len(ext) /\ ext[j].pc = "exit"
        /\ chk[j] = 0
        /\ AllResolved(documents[j].Hyperlinks)

\* a document with two links has passed its barrier and been appended
C3_Witness ==
    \E j \in 1..Len(documents) :
        /\ Len(Links(documents[j].Hyperlinks)) = 2
        /\ AllResolved(documents[j].Hyperlinks)

\* C4: main computes ResultOfValidation and builds the Report only after the
\* walk has ended and every link of every discovered document has been probed.
C4_BatchBarrier ==
    AfterScan =>
        /\ chanClosed /\ wpc = "exit" /\ wpos > Len(tree) /\ chanMsg = <<>>
        /\ Len(documents) = Len(sent)
        /\ \A j \in 1..Len(documents) :
              /\ documents[j].Path = sent[j].Path
              /\ AllResolved(documents[j].Hyperlinks)
        /\ \A a \in 1..Len(heap) : AllResolved(a)

\* the Report exists for a tree with two documents that have links
C4_Witness ==
    /\ report # <<>>
    /\ Len(report[1].Documents) = 2
    /\ \A d \in 1..2 : Len(Links(report[1].Documents[d].Hyperlinks)) >= 1

C6_SingleWrite ==
    \A a \in 1..Len(heap) : \A i \in 1..Len(heap[a]) :
        /\ probe[a][i].calls <= 1
        /\ probe[a][i].st = "none" <=> probe[a][i].calls = 0
        /\ probe[a][i].st \in {"none", "spawned", "inflight", "returned"}
               => probe[a][i].writes = 0
        /\ probe[a][i].st \in {"written", "exit"} => probe[a][i].writes = 1

\* a goroutine has ended after its single write while its sibling has not
\* written yet
C6_Witness ==
    \E a \in 1..Len(heap) :
        /\ Len(heap[a]) = 2
        /\ probe[a][1].st = "exit" /\ probe[a][1].writes = 1
        /\ probe[a][2].st = "returned"

\* C7: every link of every document's filtered list is probed exactly once:
\* one validate call and one request per list position, no retry after a
\* failure, and identical URLs are probed independently.
C7_ProbedExactlyOnce ==
    /\ \A a \in 1..Len(heap) : \A i \in 1..Len(heap[a]) :
          /\ probe[a][i].calls <= 1
          /\ probe[a][i].reqs <= 1
          /\ probe[a][i].st \in {"inflight", "returned", "written", "exit"}
                 <=> probe[a][i].reqs = 1
    /\ \A j \in 1..Len(documents) :
          \A i \in 1..Len(Links(documents[j].Hyperlinks)) :
              /\ probe[documents[j].Hyperlinks][i].calls = 1
              /\ probe[documents[j].Hyperlinks][i].reqs = 1

\* a reported document lists the same URL twice, each probed once, the first
\* request having failed
C7_Witness ==
    \E r \in 1..Len(report) : \E d \in 1..Len(report[r].Documents) :
        LET a == report[r].Documents[d].Hyperlinks
        IN  /\ Len(Links(a)) = 2
            /\ heap[a][1].Url = heap[a][2].Url
            /\ heap[a][1].IsWorking = FALSE
            /\ probe[a][1].reqs = 1 /\ probe[a][2].reqs = 1

\* C8: validate stores IsWorking = false if and only if the request returned
\* an error, true for every response, and a failed probe ends no goroutine
\* but its own: the only panics are those of the walk and of the extraction.
C8_ProbeClassification ==
    /\ \A a \in 1..Len(heap) : \A i \in 1..Len(heap[a]) :
          probe[a][i].st = "written" =>
              (heap[a][i].IsWorking = FALSE <=> probe[a][i].res = "error")
    /\ crashed \in {"no", "walk", "extract"}

\* one request failed and is stored as broken, a sibling got a 404 response
\* and is stored as working
C8_Witness ==
    \E a \in 1..Len(heap) :
        /\ Len(heap[a]) = 2
        /\ probe[a][1].st = "written" /\ probe[a][1].res = "error"
        /\ heap[a][1].IsWorking = FALSE
        /\ probe[a][2].st = "written" /\ probe[a][2].res = "status404"
        /\ heap[a][2].IsWorking = TRUE
        /\ crashed = "no"

\* C9: when a document's archive or its manifest entry cannot be opened the
\* run does not crash.
C9_ExtractionFailureRecovered == crashed # "extract"

\* C10: a walk callback invoked with an error (and possibly without file
\* info) does not abort the scan.
C10_TraversalErrorSkipped == crashed # "walk"

\* the vendor-boilerplate domain, character for character
MicrosoftDomain == <<"http://office", ".", "microsoft", ".", "com">>

\* url contains the literal text lit
ContainsLiteral(url, lit) ==
    \E i \in 1..(Len(url) - Len(lit) + 1) :
        SubSeq(url, i, i + Len(lit) - 1) = lit

\* url has the mailto: scheme
HasMailtoScheme(url) == Len(url) >= 1 /\ url[1] = "mailto:"

\* a target the filter is meant to exclude
Excluded(url) ==
    \/ url = <<>>
    \/ ContainsLiteral(url, MicrosoftDomain)
    \/ HasMailtoScheme(url)

\* C11: no link of a slice that extraction hands to the probing loop, and so
\* no link a validate call is started for or a reported Document contains, is
\* empty, contains http://office.microsoft.com or is a mailto: URL.
C11_NoExcludedLinkProbed ==
    /\ \A a \in 1..Len(heap) : \A i \in 1..Len(heap[a]) :
          ~Excluded(heap[a][i].Url)
    /\ \A r \in 1..Len(report) : \A d \in 1..Len(report[r].Documents) :
          \A i \in 1..Len(Links(report[r].Documents[d].Hyperlinks)) :
              ~Excluded(Links(report[r].Documents[d].Hyperlinks)[i].Url)

\* b.pptx, whose manifests hold a boilerplate and a mail link, is reported
\* with its two other links, both probed
C11_Witness ==
    \E r \in 1..Len(report) : \E d \in 1..Len(report[r].Documents) :
        LET doc == report[r].Documents[d]
        IN  /\ tree[doc.Path] = FileSlides
            /\ Len(Links(doc.Hyperlinks)) = 2
            /\ \A i \in 1..2 : probe[doc.Hyperlinks][i].reqs = 1

\* the positions of the links of s that pass the three tests
RetainedPositions(s) ==
    {i \in 1..Len(s) : ~ (\/ s[i].Url = <<>>
                          \/ MatchString(matchers.microsoft, s[i].Url)
                          \/ MatchString(matchers.mailto, s[i].Url))}

\* the k-th smallest element of the set of positions P
Nth(P, k) == CHOOSE i \in P : Cardinality({j \in P : j <= i}) = k

\* how often url occurs in the link sequence s
Occurrences(s, url) == Cardinality({i \in 1..Len(s) : s[i].Url = url})

\* C12: the output of filterHyperlinks is the subsequence of its input made of
\* exactly the retained links in input order, and a retained URL occurs in the
\* output as often as in the input.
C12_FilterKeepsOrderAndDuplicates ==
    fpc \in {"once", "twice"} =>
        /\ Len(fout) = Cardinality(RetainedPositions(fin))
        /\ \A k \in 1..Len(fout) : fout[k] = fin[Nth(RetainedPositions(fin), k)]
        /\ \A i \in RetainedPositions(fin) :
              Occurrences(fout, fin[i].Url) = Occurrences(fin, fin[i].Url)

\* a URL is retained twice around a dropped link
C12_Witness ==
    /\ fpc = "once"
    /\ Len(fin) = 3 /\ fin[1].Url = uA /\ fin[2].Url = uMail /\ fin[3].Url = uA
    /\ Len(fout) = 2 /\ fout[1].Url = uA /\ fout[2].Url = uA

\* C13: filterHyperlinks(filterHyperlinks(x)) = filterHyperlinks(x).
C13_FilterIdempotent == fpc = "twice" => fagain = fout

\* the filter has run twice on an input of which it dropped a part
C13_Witness ==
    /\ fpc = "twice"
    /\ Len(fin) = 3 /\ Len(fout) = 1
    /\ fagain = fout

\* the links of docs with IsWorking = false, in Document-then-Link order
RECURSIVE BrokenLinks(_)
BrokenLinks(docs) ==
    IF docs = <<>> THEN <<>>
    ELSE SelectSeq(Links(Head(docs).Hyperlinks), LAMBDA l : l.IsWorking = FALSE)
             \o BrokenLinks(Tail(docs))

\* C14: the Report's InvalidHyperlinks is the concatenation, in Document and
\* then Link order, of every link whose probe result is Broken.
C14_BrokenLinkList ==
    \A r \in 1..Len(report) :
        report[r].InvalidHyperlinks = BrokenLinks(report[r].Documents)

\* the URLs of a link sequence
Urls(links) == [i \in 1..Len(links) |-> links[i].Url]

\* the Report lists the documents in the order the walker sent them and each
\* document's links in the order extraction returned them
ReportInTraversalOrder ==
    \A r \in 1..Len(report) :
        LET docs == report[r].Documents
        IN  /\ Len(docs) = Len(sent)
            /\ \A d \in 1..Len(docs) :
                  /\ docs[d].Path = sent[d].Path
                  /\ d < Len(docs) => docs[d].Path < docs[d + 1].Path
                  /\ Urls(Links(docs[d].Hyperlinks)) =
                         Urls(extractHyperlinksFromDocument(
                                  tree[docs[d].Path], docs[d].Type))

\* a step changes element i of a backing array only by storing the outcome of
\* the request made for element i
StoredAtOwnIndex ==
    \A a \in 1..Len(heap) : \A i \in 1..Len(heap[a]) :
        heap'[a][i] # heap[a][i] =>
            /\ probe[a][i].st = "returned"
            /\ heap'[a][i] = [Url |-> heap[a][i].Url,
                              IsWorking |-> (probe[a][i].res # "error")]

\* C15: for every interleaving of the probe goroutines the Report keeps the
\* traversal order of the documents and the extraction order of the links,
\* and every probe result is stored at its own link's index.
C15_OrderPreserved == [](ReportInTraversalOrder) /\ [][StoredAtOwnIndex]_vars

\* in the second document, b.pptx with two different URLs, the request of the
\* second link has failed and been stored while the first is still in flight
C15_Witness ==
    /\ Len(documents) = 1
    /\ file.Hyperlinks = 2
    /\ tree[file.Path] = FileSlides
    /\ Urls(heap[2]) = <<uB, uA>>
    /\ probe[2][1].st = "inflight"
    /\ probe[2][2].st \in {"written", "exit"}
    /\ heap[2][2].IsWorking = FALSE /\ heap[2][1].IsWorking = FALSE

\* C16: when the report file cannot be created or written the run is ended
\* with a failure: the report is not opened and main does not finish normally.
C16_ReportWriteFailureFatal ==
    artifact = "failed" => (viewer = "none" /\ mpc # "finished")

\* the Documents the walker has sent or is blocked sending
Offered == sent \o chanMsg

\* a file with one of the two supported extensions
QualifyingFile(call) ==
    /\ call.hasInfo
    /\ ~call.isDir
    /\ Ext(call.name) \in {ExtDocx, ExtPptx}

\* C17: the scanner sends an entry as a Document if and only if it is a file
\* whose extension is .docx or .pptx, every other file and every directory is
\* skipped, and each qualifying file is sent once with Type = its extension.
C17_OnlyDocumentFilesSent ==
    /\ \A j \in 1..Len(Offered) :
          /\ QualifyingFile(tree[Offered[j].Path])
          /\ Offered[j].Type = Ext(tree[Offered[j].Path].name)
    /\ \A j, k \in 1..Len(Offered) :
          j # k => Offered[j].Path # Offered[k].Path
    /\ \A p \in 1..(wpos - 1) :
          QualifyingFile(tree[p]) => \E j \in 1..Len(Offered) : Offered[j].Path = p

\* an entry the walker sends: it has file info and one of the two extensions
SentByWalker(call) ==
    call.hasInfo /\ Ext(call.name) \in {ExtDocx, ExtPptx}

\* C18: every Document sent by the walker appears exactly once in
\* Report.Documents, also when it has zero links, and nothing else does.
C18_ReportEnumeratesSentDocuments ==
    \A r \in 1..Len(report) :
        LET docs == report[r].Documents
        IN  /\ \A p \in 1..Len(tree) :
                  Cardinality({d \in 1..Len(docs) : docs[d].Path = p}) =
                      IF SentByWalker(tree[p]) THEN 1 ELSE 0
            /\ \A d \in 1..Len(docs) :
                  /\ docs[d].Path \in 1..Len(tree)
                  /\ \E j \in 1..Len(sent) :
                        /\ sent[j].Path = docs[d].Path
                        /\ sent[j].Type = docs[d].Type

\* the Report lists two documents, one of them without links
C18_Witness ==
    \E r \in 1..Len(report) :
        /\ Len(report[r].Documents) = 2
        /\ \E d \in 1..2 : Links(report[r].Documents[d].Hyperlinks) = <<>>
        /\ \E d \in 1..2 : Len(Links(report[r].Documents[d].Hyperlinks)) = 2

\* the value of the Target attribute that starts at position c: up to the
\* next quote, possibly empty
AttributeValue(s, c) ==
    LET qs == {j \in c..Len(s) : s[j] = "Q"}
    IN  IF qs = {} THEN SubSeq(s, c, Len(s))
        ELSE SubSeq(s, c, (CHOOSE j \in qs : \A j2 \in qs : j <= j2) - 1)

\* the targets of the hyperlink relationship records of a manifest
RecordTargets(s) ==
    {AttributeValue(s, i + 3) :
        i \in {x \in 1..(Len(s) - 2) : SubSeq(s, x, x + 2) = HyperlinkPrefix}}

\* no manifest entry matches, or every target is boilerplate, mailto or empty
OnlyExcludedTargets(archive, type) ==
    /\ archive.zipOk
    /\ \A t \in RecordTargets(getLinkFileContent(archive, type)) : Excluded(t)

\* C19: a document that ends with zero links after filtering (no matching
\* manifest entry, or every target boilerplate, mailto or empty) gets no
\* probe and is reported with an empty link list and IsValid = true.
C19_NoLinksIsValid ==
    \A r \in 1..Len(report) : \A d \in 1..Len(report[r].Documents) :
        LET doc == report[r].Documents[d]
        IN  OnlyExcludedTargets(tree[doc.Path], doc.Type) =>
                /\ Links(doc.Hyperlinks) = <<>>
                /\ doc.IsValid = TRUE

\* no entry of the tree has one of the two extensions
NoMatchingFile ==
    \A p \in 1..Len(tree) : Ext(tree[p].name) \notin {ExtDocx, ExtPptx}

C21_ViewerFailureNotFatal ==
    viewer = "failed" =>
        /\ "Could not open report" \in logs
        /\ "Finished!" \in logs
        /\ mpc = "finished"
        /\ crashed = "no"

\* the viewer could not be started for a report that had been written
C21_Witness ==
    /\ viewer = "failed"
    /\ artifact = "written"
    /\ mpc = "finished"

\* C26: whenever getLinkFileContent has returned or has been left through an
\* error path, the archive reader and every entry reader it opened are
\* closed; while it reads, it holds the archive reader and only readers of
\* entries it has already visited.
C26_HandlesReleased ==
    \A k \in 1..Len(ext) :
        /\ ext[k].pc \in {"loop", "exit"} => ext[k].fds = {}
        /\ crashed = "extract" => ext[k].fds = {}
        /\ ext[k].pc = "extract" => ext[k].fds = {} /\ ext[k].opened = 0
        /\ ext[k].pc = "entries" /\ crashed = "no" =>
              /\ 0 \in ext[k].fds
              /\ ext[k].fds \subseteq 0..(ext[k].pos - 1)
              /\ Cardinality(ext[k].fds) = ext[k].opened

\* getLinkFileContent has returned after opening an archive and two entries
C26_Witness ==
    \E k \in 1..Len(ext) :
        /\ ext[k].pc \in {"loop", "exit"}
        /\ ext[k].opened = 3
        /\ ext[k].fds = {}

(***************************************************************************)
(* Memory accesses.  For each goroutine, the shared locations its next     *)
(* step reads or writes, when that step is not blocked on a channel or a   *)
(* WaitGroup.                                                              *)
(***************************************************************************)
Loc(kind, a, i) == [kind |-> kind, a |-> a, i |-> i]
\* the loop variable `file` that extractAndCheckHyperlinks gets a pointer to
FileVar == Loc("file", 0, 0)
\* the global map matchers
MatchersMap == Loc("matchers", 0, 0)
\* element i of backing array a
Element(a, i) == Loc("link", a, i)

Reads(loc) == [loc |-> loc, write |-> FALSE]
Writes(loc) == [loc |-> loc, write |-> TRUE]

\* main: initializeMatchers fills the map; the range statement assigns the
\* loop variable; append copies it; the loops of main and the template read
\* the links of the returned documents
MainAccesses ==
    IF crashed # "no" THEN {}
    ELSE IF mpc = "start" THEN {Writes(MatchersMap)}
    ELSE IF mpc = "range" /\ chanMsg # <<>> THEN {Writes(FileVar)}
    ELSE IF mpc = "wait" /\ WaitReturns(chk[cur]) THEN {Reads(FileVar)}
    ELSE IF mpc \in {"aggregate", "create"}
    THEN UNION {{Reads(Element(documents[d].Hyperlinks, i)) :
                    i \in 1..Len(Links(documents[d].Hyperlinks))} :
                d \in 1..Len(documents)}
    ELSE {}

\* extractAndCheckHyperlinks: *file is copied for the call, the matchers are
\* read, file.Hyperlinks is assigned (its new array is not yet known to any
\* other goroutine), and the loop reads file.Hyperlinks[index].Url
ExtractAccesses(k) ==
    IF crashed # "no" THEN {}
    ELSE IF ext[k].pc = "extract" THEN {Reads(FileVar)}
    ELSE IF ext[k].pc = "entries"
    THEN IF ext[k].pos <= Len(ArchiveOf(file).entries)
         THEN {Reads(MatchersMap)}
         ELSE {Reads(MatchersMap), Writes(FileVar)}
    ELSE IF ext[k].pc = "loop" /\ ext[k].index <= ext[k].n
    THEN {Reads(FileVar), Reads(Element(file.Hyperlinks, ext[k].index))}
    ELSE {}

\* validate: reads link.Url for the request, later assigns link.IsWorking
ValidateAccesses(a, i) ==
    IF crashed # "no" THEN {}
    ELSE IF probe[a][i].st = "spawned" THEN {Reads(Element(a, i))}
    ELSE IF probe[a][i].st = "returned" THEN {Writes(Element(a, i))}
    ELSE {}

\* walkDirectory: the Document it builds is a local of the callback and is
\* sent by value
WalkerAccesses ==
    IF crashed = "no" /\ wpc = "walk" /\ wpos <= Len(tree)
    THEN {Writes(Loc("callback file", 0, 0))}
    ELSE {}

Goroutines ==
    {Loc("main", 0, 0), Loc("walker", 0, 0)}
        \cup {Loc("extract", k, 0) : k \in 1..Len(ext)}
        \cup UNION {{Loc("validate", a, i) : i \in 1..Len(heap[a])} :
                       a \in 1..Len(heap)}

Accesses(g) ==
    IF g.kind = "main" THEN MainAccesses
    ELSE IF g.kind = "walker" THEN WalkerAccesses
    ELSE IF g.kind = "extract" THEN ExtractAccesses(g.a)
    ELSE ValidateAccesses(g.a, g.i)

\* two goroutines can access the same location now, one of them writing
Conflict(g1, g2) ==
    /\ g1 # g2
    /\ \E x \in Accesses(g1) : \E y \in Accesses(g2) :
          x.loc = y.loc /\ (x.write \/ y.write)

\* C22: there is no reachable state in which two goroutines access the same
\* Document variable, Hyperlinks slice element or the matchers map at the
\* same time, one of them writing, unordered by a channel or WaitGroup
\* operation.
C22_NoDataRace ==
    \A g1, g2 \in Goroutines : ~Conflict(g1, g2)

\* two validate goroutines are about to write at the same time (to different
\* elements) while the goroutine that started them has not ended
C22_Witness ==
    /\ \E g1, g2 \in Goroutines :
          /\ g1 # g2
          /\ \E x \in Accesses(g1) : x.write
          /\ \E y \in Accesses(g2) : y.write
          /\ g1.kind = "validate" /\ g2.kind = "validate"
    /\ \E k \in 1..Len(ext) : ext[k].pc = "loop"

C24_FilterDropsExactlyListed ==
    fpc \in {"once", "twice"} =>
        \A i \in 1..Len(fin) :
            (\E j \in 1..Len(fout) : fout[j].Url = fin[i].Url)
                <=> ~Excluded(fin[i].Url)

\* the entries that hold the relationship records of a document kind: the
\* one manifest of a .docx, every slide manifest of a .pptx
IsManifest(name, type) ==
    IF type = ExtDocx THEN name = DocxManifest
    ELSE /\ Len(name) >= 5
         /\ name[1] = "ppt/slides/_rels/"
         /\ SubSeq(name, Len(name) - 3, Len(name)) = <<".", "xml", ".", "rels">>

\* the Target values of the hyperlink records of s from position from on, in
\* their order in s
RECURSIVE RecordTargetsFrom(_, _)
RecordTargetsFrom(s, from) ==
    IF from + 2 > Len(s) THEN <<>>
    ELSE IF SubSeq(s, from, from + 2) = HyperlinkPrefix
         THEN <<AttributeValue(s, from + 3)>> \o RecordTargetsFrom(s, from + 3)
         ELSE RecordTargetsFrom(s, from + 1)

\* the targets of a document: entries in archive order, records in their
\* order inside each entry
RECURSIVE DocumentTargets(_, _)
DocumentTargets(entries, type) ==
    IF entries = <<>> THEN <<>>
    ELSE (IF IsManifest(Head(entries).name, type)
          THEN RecordTargetsFrom(Head(entries).content, 1) ELSE <<>>)
             \o DocumentTargets(Tail(entries), type)

\* the members of q that pass the test of the filter, in order
RECURSIVE KeptTargets(_)
KeptTargets(q) ==
    IF q = <<>> THEN <<>>
    ELSE (IF Retained(Head(q)) THEN <<Head(q)>> ELSE <<>>) \o KeptTargets(Tail(q))

\* C25: extraction captures every hyperlink relationship record of every
\* manifest entry that matches the document kind, and returns the targets in
\* document order; a second run on the same bytes returns the same sequence.
C25_ExtractsAllTargetsInOrder ==
    /\ fpc \in {"once", "twice"} =>
          Urls(fout) = KeptTargets(DocumentTargets(fin.archive.entries, fin.type))
    /\ fpc = "twice" => fagain = fout

\* the validate goroutines given WaitGroup k that have not called Done
Running(k) ==
    UNION {{<<a, i>> : i \in {i \in 1..Len(heap[a]) :
                                /\ probe[a][i].wg = k
                                /\ probe[a][i].st \in Unfinished}} :
           a \in 1..Len(heap)}

CounterMatchesGoroutines ==
    \A k \in 1..Len(chk) :
        /\ chk[k] >= 0
        /\ chk[k] = (IF ext[k].pc # "exit" THEN 1 ELSE 0) + Cardinality(Running(k))

AddWhilePositive ==
    \A k \in 1..Len(chk) :
        /\ chk'[k] > chk[k] => chk[k] > 0
        /\ chk[k] = 0 => chk'[k] = 0

\* C28: the counter of a document's WaitGroup is never negative and equals
\* (1 while extractAndCheckHyperlinks has not called Done) plus the number of
\* its validate goroutines that have not called Done; every Add happens
\* while the counter is positive, and once zero the counter stays zero.
C28_WaitGroupCounter ==
    [](CounterMatchesGoroutines) /\ [][AddWhilePositive]_vars

\* the counter stands at three: the extracting goroutine and two probes
C28_Witness ==
    \E k \in 1..Len(chk) :
        /\ chk[k] = 3
        /\ ext[k].pc = "loop"
        /\ Cardinality(Running(k)) = 2

ClosedAfterLastSend ==
    /\ chanClosed =>
          /\ chanMsg = <<>>
          /\ wpos > Len(tree)
          /\ wpc \in {"closed", "exit"}
    /\ AfterScan =>
          /\ wpc = "exit" /\ wg = 0
          /\ \A k \in 1..Len(ext) : ext[k].pc = "exit"
          /\ \A a \in 1..Len(heap) : \A i \in 1..Len(heap[a]) :
                probe[a][i].st = "exit"

NothingAfterCloseOrReturn ==
    /\ WalkClose => ~chanClosed
    /\ chanClosed => chanClosed' /\ sent' = sent /\ chanMsg' = <<>>
    /\ AfterScan => file' = file /\ heap' = heap /\ probe' = probe /\ ext' = ext

\* C29: walkDirectory closes fileChannel once and only after its last send;
\* when getAndCheckFilesInDirectory has returned the walker has called
\* wg.Done, no extractAndCheckHyperlinks or validate goroutine is running,
\* and nothing writes to a Document or a Link any more.
C29_GoroutineLifecycle ==
    [](ClosedAfterLastSend) /\ [][NothingAfterCloseOrReturn]_vars

\* getAndCheckFilesInDirectory has returned two documents, one with two
\* links, and main has not aggregated yet
C29_Witness ==
    /\ mpc = "aggregate"
    /\ wpc = "exit"
    /\ Len(documents) = 2
    /\ \E a \in 1..Len(heap) : Len(heap[a]) = 2

OneOwnerPerArray ==
    /\ \A d1, d2 \in 1..Len(documents) :
          d1 # d2 => documents[d1].Hyperlinks # documents[d2].Hyperlinks
    /\ \A d \in 1..Len(documents) : documents[d].Hyperlinks \in 1..Len(heap)
    /\ mpc \in {"check", "wait"} =>
          \A d \in 1..Len(documents) :
              documents[d].Hyperlinks # file.Hyperlinks

AppendedDocumentsUnchanged ==
    \A d \in 1..Len(documents) :
        /\ d <= Len(documents')
        /\ documents'[d].Path = documents[d].Path
        /\ documents'[d].Type = documents[d].Type
        /\ documents'[d].Hyperlinks = documents[d].Hyperlinks
        /\ heap'[documents[d].Hyperlinks] = heap[documents[d].Hyperlinks]

\* C30: receiving and validating a later document, which reuses the loop
\* variable, leaves every Document already appended unchanged: its Path, its
\* Type and the Url and IsWorking of each of its links; no two Documents
\* share a link array.
C30_AppendedDocumentsFrame ==
    [](OneOwnerPerArray) /\ [][AppendedDocumentsUnchanged]_vars

\* one document has been appended and a link of the next one has just been
\* written
C30_Witness ==
    /\ mpc = "wait"
    /\ Len(documents) = 1
    /\ Len(Links(documents[1].Hyperlinks)) = 2
    /\ file.Hyperlinks # 0
    /\ \E i \in 1..Len(Links(file.Hyperlinks)) :
          probe[file.Hyperlinks][i].st = "written"

\* every entry comes with its file info, and every document's archive and
\* manifest entries can be opened
NoFailure ==
    \A p \in 1..Len(tree) :
        /\ tree[p].hasInfo
        /\ Ext(tree[p].name) \in {ExtDocx, ExtPptx} =>
              ~ExtractionPanics(tree[p], Ext(tree[p].name))

\* C27: provided every probe request returns and no archive or traversal
\* failure occurs, under fair scheduling the walker closes the file channel,
\* every checkingHyperlinks.Wait() returns, getAndCheckFilesInDirectory
\* returns and main gets to the report; no state in which all goroutines
\* are blocked is reached.
C27_Termination ==
    NoFailure =>
        <>(/\ chanClosed /\ wpc = "exit"
           /\ \A k \in 1..Len(chk) : chk[k] = 0
           /\ wg = 0
           /\ mpc = "finished")

\* main has finished on a tree of two documents with two links each
C27_Witness ==
    /\ NoFailure
    /\ mpc = "finished"
    /\ Len(documents) = 2
    /\ \A d \in 1..2 : Len(Links(documents[d].Hyperlinks)) = 2

\* main has returned from getAndCheckFilesInDirectory in the earlier
\* concurrent iteration
EarlyReturned == mpc = "returned"

\* C31: in the earlier concurrent iteration getAndCheckFilesInDirectory
\* eventually returns normally (the receive on doneChannel completes and
\* wg.Wait() returns), and the WaitGroup counter never becomes negative.
C31_EarlyScanReturns == [](wg >= 0) /\ <>EarlyReturned

\* the Document list a Report of the sequential iteration points to
ReportDocuments(r) == IF r.Documents = "&documents" THEN documents ELSE r.Documents

\* no Document of the list has a link that is not working
NoBrokenLink(docs) ==
    \A d \in 1..Len(docs) :
        \A i \in 1..Len(Links(docs[d].Hyperlinks)) :
            Links(docs[d].Hyperlinks)[i].IsWorking

\* C32: in the sequential iteration the Report handed to the renderer has
\* ResultOfValidation true if and only if no Document has a broken link, if
\* and only if InvalidHyperlinks is empty.
C32_SequentialReportInvariant ==
    artifact # "none" =>
        /\ report[1].ResultOfValidation <=> NoBrokenLink(ReportDocuments(report[1]))
        /\ NoBrokenLink(ReportDocuments(report[1]))
               <=> report[1].InvalidHyperlinks = <<>>

====
